---- MODULE Spec2Model ----
(***************************************************************************)
(* mdtagger (src/main.rs): resolve raw tag strings against a persistent    *)
(* vocabulary (tags_db.json), learn aliases / new tags through prompts,    *)
(* and merge the resolved tags into the front matter of a Markdown file.   *)
(*                                                                         *)
(* Strings are sequences of code points (a = 1, b = 2, ...), so that the   *)
(* edit distance and the lexical order are computed, not assumed.          *)
(* The two dialoguer prompts are the points where resolve_tag blocks; the  *)
(* model has one position for each and one action per answer.  Prompts     *)
(* are always answered and writes to storage succeed; a file that cannot   *)
(* be read is a state of the file.                                         *)
(***************************************************************************)
EXTENDS Integers, Sequences, FiniteSets, TLC

VARIABLES
    pc,             \* position of main: "idle", "loop", "select", "confirm", "merge", "done", "failed"
    session,        \* number of runs of main started so far
    store,          \* the tag database file (cli.db)
    doc,            \* the Markdown file (cli.path)
    doc_before,     \* the Markdown file as it was when the current run started
    cli_tags,       \* the raw tags the for loop of main has taken from cli.tags
    config,         \* main's `config`
    resolved_tags,  \* main's `resolved_tags`
    config_updated, \* main's `config_updated`
    input,          \* resolve_tag's `input`
    suggestions,    \* resolve_tag's `suggestions`: sequence of <<idx, dist>>
    err,            \* the error main returned with, "" when none
    store_writes,   \* fs::write calls on the database in the current run
    doc_writes,     \* fs::write calls on the Markdown file in the current run
    calls,          \* log of the resolve_tag calls of the current run, the last one
                    \* possibly waiting at a prompt
    aliased,        \* log of the alias registrations: [x, m, s] (input, entry name, run)
    declined        \* log of the declined registrations: [x, vocab, s]

vars == <<pc, session, store, doc, doc_before, cli_tags, config, resolved_tags,
          config_updated, input, suggestions, err, store_writes, doc_writes,
          calls, aliased, declined>>

-----------------------------------------------------------------------------
(* Bounds of the model *)

\* Number of raw tags given on one command line (num_args = 1..).
MaxTags == 2
\* Number of runs of the program that are followed, and the number of raw
\* tags of each, where one run follows another (SpecSessions).
MaxSessions == 2
SessionTags == 1
\* Number of raw tags of a run where only the loop of the calls is followed
\* (SpecResolve).
MaxCalls == 3

-----------------------------------------------------------------------------
(* Strings *)

Min2(x, y) == IF x <= y THEN x ELSE y

\* The raw tags a command line is made of: "", "a", "abc", "abcd".
Inputs == { <<>>, <<1>>, <<1, 2, 3>>, <<1, 2, 3, 4>> }

\* strsim::levenshtein: insert / delete / substitute, each of cost 1.
RECURSIVE levenshtein(_, _)
levenshtein(a, b) ==
    IF Len(a) = 0 THEN Len(b)
    ELSE IF Len(b) = 0 THEN Len(a)
    ELSE Min2(Min2(levenshtein(Tail(a), b) + 1, levenshtein(a, Tail(b)) + 1),
              levenshtein(Tail(a), Tail(b)) + (IF Head(a) = Head(b) THEN 0 ELSE 1))

\* String's Ord: lexical comparison by code point, a proper prefix first.
RECURSIVE StrLess(_, _)
StrLess(a, b) ==
    IF Len(b) = 0 THEN FALSE
    ELSE IF Len(a) = 0 THEN TRUE
    ELSE IF Head(a) # Head(b) THEN Head(a) < Head(b)
    ELSE StrLess(Tail(a), Tail(b))

-----------------------------------------------------------------------------
(* Vocabulary: TagConfig { tags: Vec<TagEntry { name, aliases }> } *)

TagEntry(name, aliases) == [name |-> name, aliases |-> aliases]

\* TagConfig::default()
DefaultConfig == <<>>

SeqHas(s, x) == \E k \in 1..Len(s) : s[k] = x

\* Variant: only the aliases are compared.
EntryMatchesAlias(entry, in) == SeqHas(entry.aliases, in)

\* Variant: the aliases are not looked at.
EntryMatchesName(entry, in) == entry.name = in

\* entry.name == input || entry.aliases.iter().any(|a| a == input)
EntryMatches(entry, in) == entry.name = in \/ SeqHas(entry.aliases, in)

\* The for loop of the exact check: index of the first matching entry, 0 when none.
ExactMatch(cfg, in) ==
    IF \E k \in 1..Len(cfg) : EntryMatches(cfg[k], in)
    THEN CHOOSE k \in 1..Len(cfg) :
            /\ EntryMatches(cfg[k], in)
            /\ \A j \in 1..(k - 1) : ~EntryMatches(cfg[j], in)
    ELSE 0

\* The distance up to which an entry is suggested.
Threshold == 3

\* Variant: the threshold itself is left out (dist < 3).
IsCandidateBelow(dist) == dist < Threshold

\* .filter(|(_, dist)| *dist <= 3)
IsCandidate(dist) == dist <= Threshold

\* What the fuzzy check measures the input against.
FuzzyKey(entry) == entry.name

\* enumerate().map(..).filter(..).collect(): <<idx, dist>> in vocabulary order.
RECURSIVE SuggestFrom(_, _, _)
SuggestFrom(cfg, in, k) ==
    IF k > Len(cfg) THEN <<>>
    ELSE LET dist == levenshtein(FuzzyKey(cfg[k]), in)
         IN  (IF IsCandidate(dist) THEN << <<k, dist>> >> ELSE <<>>)
             \o SuggestFrom(cfg, in, k + 1)

Suggestions(cfg, in) == SuggestFrom(cfg, in, 1)

\* Variant: the best match is the first suggestion of least distance.
BestMatchClosest(sugg) ==
    sugg[CHOOSE k \in 1..Len(sugg) :
            /\ \A j \in 1..Len(sugg) : sugg[k][2] <= sugg[j][2]
            /\ \A j \in 1..(k - 1) : sugg[j][2] > sugg[k][2]][1]

\* let best_match_idx = suggestions[0].0;
BestMatchIdx(sugg) == sugg[1][1]

\* Variant: whatever entry is chosen, the first suggestion is taken.
TargetIdxFirst(sugg, selection) == sugg[1][1]

\* let target_idx = suggestions[selection].0;
TargetIdx(sugg, selection) == sugg[selection + 1][1]

\* Variant: the input takes the place of the aliases the entry had.
PushAliasReplace(cfg, idx, in) ==
    [cfg EXCEPT ![idx] = TagEntry(cfg[idx].name, <<in>>)]

\* config.tags[best_match_idx].aliases.push(input.to_string())
PushAlias(cfg, idx, in) ==
    [cfg EXCEPT ![idx] = TagEntry(cfg[idx].name, Append(cfg[idx].aliases, in))]

\* Variant: the new entry is put in front.
PushTagFront(cfg, in) == <<TagEntry(in, <<>>)>> \o cfg

\* config.tags.push(TagEntry { name: input.to_string(), aliases: Vec::new() })
PushTag(cfg, in) == Append(cfg, TagEntry(in, <<>>))

-----------------------------------------------------------------------------
(* The tag database file and serde_json *)

\* A JSON object of the "tags" array; `aliases` may be left out (#[serde(default)]).
JsonEntry(name, has_aliases, aliases) ==
    [name |-> name, has_aliases |-> has_aliases, aliases |-> aliases]

\* A database file: missing, unreadable (the file cannot be opened or read),
\* not_utf8 (its bytes are not UTF-8 text), corrupt (text, but not the JSON
\* of a TagConfig), or JSON.
StoreFile(kind, tags) == [kind |-> kind, tags |-> tags]

\* serde_json::from_str::<TagConfig> on well-formed content.
FromJson(tags) ==
    [k \in 1..Len(tags) |->
        TagEntry(tags[k].name, IF tags[k].has_aliases THEN tags[k].aliases ELSE <<>>)]

\* Variant: `aliases` is not written.
ToJsonNamesOnly(cfg) ==
    [k \in 1..Len(cfg) |-> JsonEntry(cfg[k].name, FALSE, <<>>)]

\* serde_json::to_string_pretty(config): every field is written.
ToJson(cfg) ==
    [k \in 1..Len(cfg) |-> JsonEntry(cfg[k].name, TRUE, cfg[k].aliases)]

\* load_config: [ok, config]. fs::read_to_string returns Err when the file
\* cannot be read and when what it holds is not valid UTF-8.
load_config(file) ==
    IF file.kind = "missing" THEN [ok |-> TRUE, config |-> DefaultConfig]
    ELSE IF file.kind \in {"unreadable", "not_utf8"} THEN [ok |-> FALSE, config |-> DefaultConfig]
    ELSE IF file.kind = "corrupt" THEN [ok |-> TRUE, config |-> DefaultConfig]
    ELSE [ok |-> TRUE, config |-> FromJson(file.tags)]

\* save_config: the content fs::write leaves in the file.
save_config(cfg) == StoreFile("json", ToJson(cfg))

-----------------------------------------------------------------------------
(* serde_yaml::Value *)

Value(t, s, items) == [t |-> t, s |-> s, items |-> items]

VStr(s) == Value("str", s, <<>>)
VSeq(items) == Value("seq", <<>>, items)
\* A mapping keeps its entries in insertion order: a sequence of [key, val].
VMap(pairs) == Value("map", <<>>, pairs)
VNull == Value("null", <<>>, <<>>)
VNum == Value("num", <<>>, <<>>)
VBool == Value("bool", <<>>, <<>>)

Pair(key, val) == [key |-> key, val |-> val]

\* Mapping::new()
EmptyMapping == VMap(<<>>)

KeyIndex(pairs, key) ==
    IF \E k \in 1..Len(pairs) : pairs[k].key = key
    THEN CHOOSE k \in 1..Len(pairs) : pairs[k].key = key
    ELSE 0

-----------------------------------------------------------------------------
(* The Markdown file as lines, each ended by "\n"; `nl` tells whether the   *)
(* last line is.  A line is the marker "---", a `key: value` entry of a    *)
(* YAML mapping (with the lines of its value), a `- value` item of a YAML  *)
(* sequence, plain text, text that is no YAML ("bad"), or empty.           *)

Line(t, key, val) == [t |-> t, key |-> key, val |-> val]

Marker == Line("marker", "", VNull)
KV(key, val) == Line("kv", key, val)
Item(val) == Line("item", "", val)
Text(s) == Line("text", "", VStr(s))
Bad == Line("bad", "", VNull)
Blank == Line("blank", "", VNull)

\* A Markdown file: missing (fs::read_to_string fails) or its content.
DocFile(kind, lines, nl) == [kind |-> kind, lines |-> lines, nl |-> nl]

SubLines(lines, from, to) == [k \in 1..(to - from + 1) |-> lines[from + k - 1]]

\* Whether line c can be the "\n---\n" that closes the block opened by line 1.
Closes(lines, nl, c) ==
    /\ c >= 3
    /\ lines[c] = Marker
    /\ (c < Len(lines) \/ nl)

\* Regex (?s)^---\n(.*?)\n---\n(.*): the lazy group stops at the first closing
\* marker.  0 when the content does not match.
ClosingLine(lines, nl) ==
    IF /\ Len(lines) >= 3
       /\ lines[1] = Marker
       /\ \E c \in 1..Len(lines) : Closes(lines, nl, c)
    THEN CHOOSE c \in 1..Len(lines) :
            /\ Closes(lines, nl, c)
            /\ \A j \in 1..(c - 1) : ~Closes(lines, nl, j)
    ELSE 0

\* serde_yaml::from_str::<Value>(yaml_str): [ok, val].
\* Empty lines are skipped and a leading "---" starts the document.
RECURSIVE DropBlank(_)
DropBlank(lines) ==
    IF Len(lines) = 0 THEN <<>>
    ELSE (IF Head(lines).t = "blank" THEN <<>> ELSE <<Head(lines)>>)
         \o DropBlank(Tail(lines))

YamlParse(yaml) ==
    LET start == IF Len(yaml) > 0 /\ yaml[1] = Marker THEN Tail(yaml) ELSE yaml
        ls == DropBlank(start)
        all(t) == \A k \in 1..Len(ls) : ls[k].t = t
    IN  IF Len(ls) = 0 THEN [ok |-> TRUE, val |-> VNull]
        ELSE IF all("kv")
        THEN IF \A j, k \in 1..Len(ls) : ls[j].key = ls[k].key => j = k
             THEN [ok |-> TRUE, val |-> VMap([k \in 1..Len(ls) |-> Pair(ls[k].key, ls[k].val)])]
             ELSE [ok |-> FALSE, val |-> VNull]
        ELSE IF all("item")
        THEN [ok |-> TRUE, val |-> VSeq([k \in 1..Len(ls) |-> ls[k].val])]
        ELSE IF all("text")
        THEN [ok |-> TRUE, val |-> ls[1].val]
        ELSE [ok |-> FALSE, val |-> VNull]

\* serde_yaml::to_string of a mapping: one entry per key, in the mapping's order.
YamlLines(pairs) == [k \in 1..Len(pairs) |-> KV(pairs[k].key, pairs[k].val)]

-----------------------------------------------------------------------------
(* update_markdown *)

\* seq.iter().filter_map(|v| v.as_str()...)
RECURSIVE Strings(_)
Strings(items) ==
    IF Len(items) = 0 THEN <<>>
    ELSE (IF Head(items).t = "str" THEN <<Head(items).s>> ELSE <<>>)
         \o Strings(Tail(items))

\* Vec::sort on strings (the result of inserting x into the sorted s).
RECURSIVE Insert(_, _)
Insert(s, x) ==
    IF Len(s) = 0 THEN <<x>>
    ELSE IF StrLess(x, Head(s)) THEN <<x>> \o s
    ELSE <<Head(s)>> \o Insert(Tail(s), x)

RECURSIVE Sort(_)
Sort(s) == IF Len(s) = 0 THEN <<>> ELSE Insert(Sort(Tail(s)), Head(s))

\* Variant: repeated elements are kept.
DedupNone(s) == s

\* Vec::dedup: consecutive repeated elements are removed.
RECURSIVE Dedup(_)
Dedup(s) ==
    IF Len(s) <= 1 THEN s
    ELSE IF s[1] = s[2] THEN Dedup(Tail(s))
    ELSE <<Head(s)>> \o Dedup(Tail(s))

\* Lines 206-218: the new value of a `tags` field that is a sequence.
MergeSeq(items, new_tags) ==
    LET current_strings == Dedup(Sort(Strings(items) \o new_tags))
    IN  VSeq([k \in 1..Len(current_strings) |-> VStr(current_strings[k])])

\* Lines 199-218: what becomes of the value of `tags`.
MergeTagsVal(tags_val, new_tags) ==
    LET promoted == IF tags_val.t = "str" THEN VSeq(<<VStr(tags_val.s)>>) ELSE tags_val
    IN  IF promoted.t = "seq" THEN MergeSeq(promoted.items, new_tags) ELSE promoted

\* Lines 195-197: the mapping with a `tags` key.
WithTagsKey(pairs) ==
    IF KeyIndex(pairs, "tags") = 0 THEN Append(pairs, Pair("tags", VSeq(<<>>))) ELSE pairs

\* Variant: a block that does not parse is taken as null.
ParseOrNull(parsed) == parsed.val

\* Variant: what the block holds is not kept.
ParseDropped(parsed) == EmptyMapping

\* .unwrap_or(Value::Mapping(serde_yaml::Mapping::new())), line 186
ParseOrDefault(parsed) == IF parsed.ok THEN parsed.val ELSE EmptyMapping

\* update_markdown: [ok, err, file], file being the Markdown file afterwards.
update_markdown(file, new_tags) ==
    IF file.kind = "missing"
    THEN [ok |-> FALSE, err |-> "Failed to read", file |-> file]
    ELSE
    LET c == ClosingLine(file.lines, file.nl)
        parsed == YamlParse(SubLines(file.lines, 2, c - 1))
        yaml_val == IF c = 0 THEN EmptyMapping ELSE ParseOrDefault(parsed)
        body == IF c = 0 THEN file.lines ELSE SubLines(file.lines, c + 1, Len(file.lines))
    IN  IF yaml_val.t # "map"
        THEN [ok |-> FALSE, err |-> "Invalid Front Matter", file |-> file]
        ELSE
        LET mapping == WithTagsKey(yaml_val.items)
            at == KeyIndex(mapping, "tags")
            merged == [mapping EXCEPT ![at] = Pair("tags", MergeTagsVal(mapping[at].val, new_tags))]
            new_lines == <<Marker>> \o YamlLines(merged) \o <<Marker>> \o body
        IN  [ok |-> TRUE, err |-> "",
             file |-> DocFile("file", new_lines, IF Len(body) = 0 THEN TRUE ELSE file.nl)]

-----------------------------------------------------------------------------
(* The files the program is started on *)

\* tags_db.json: absent, unreadable, not text, not JSON, hand-written without `aliases`,
\* with an alias, and one where an alias of the first entry is the name of
\* the second.
InitStores ==
    { StoreFile("missing", <<>>),
      StoreFile("unreadable", <<>>),
      StoreFile("not_utf8", <<>>),
      StoreFile("corrupt", <<>>),
      StoreFile("json", << JsonEntry(<<1, 2, 3, 4>>, FALSE, <<>>) >>),
      StoreFile("json", << JsonEntry(<<1, 2, 3, 4>>, TRUE, << <<2>> >>),
                           JsonEntry(<<1, 2, 3>>, TRUE, <<>>) >>),
      StoreFile("json", << JsonEntry(<<1, 2, 3, 4>>, TRUE, << <<1, 2, 3>> >>),
                           JsonEntry(<<1, 2, 3>>, TRUE, <<>>) >>) }

\* The body of the documents: a paragraph and a horizontal rule.
Body == << Text(<<2, 2>>), Marker >>

Docs ==
    { DocFile("missing", <<>>, TRUE),
      \* no front matter
      DocFile("file", Body, FALSE),
      \* title and a list of tags, unsorted, repeated, one entry not a string
      DocFile("file", << Marker,
                         KV("title", VStr(<<3>>)),
                         KV("tags", VSeq(<< VStr(<<2>>), VNum, VStr(<<1>>), VStr(<<2>>) >>)),
                         Marker >> \o Body, TRUE),
      \* tags: b
      DocFile("file", << Marker, KV("tags", VStr(<<2>>)), Marker >> \o Body, TRUE),
      \* tags: 42
      DocFile("file", << Marker, KV("tags", VNum), KV("title", VStr(<<3>>)), Marker >>, TRUE),
      \* the block is a list
      DocFile("file", << Marker, Item(VStr(<<2>>)), Marker >> \o Body, TRUE),
      \* the block is not YAML
      DocFile("file", << Marker, KV("title", VStr(<<3>>)), Bad, Marker >> \o Body, TRUE),
      \* the opening marker is never closed
      DocFile("file", << Marker, KV("tags", VStr(<<2>>)), Text(<<2, 2>>) >>, TRUE),
      \* the file ends with the closing marker, with no "\n" after it
      DocFile("file", << Marker, KV("title", VStr(<<3>>)), KV("tags", VStr(<<2>>)), Marker >>,
              FALSE) }

InitWith(stores, docs) ==
    /\ pc = "idle"
    /\ session = 0
    /\ store \in stores
    /\ doc \in docs
    /\ doc_before = doc
    /\ cli_tags = <<>>
    /\ config = DefaultConfig
    /\ resolved_tags = <<>>
    /\ config_updated = FALSE
    /\ input = <<>>
    /\ suggestions = <<>>
    /\ err = ""
    /\ store_writes = 0
    /\ doc_writes = 0
    /\ calls = <<>>
    /\ aliased = {}
    /\ declined = {}

Init == InitWith(InitStores, Docs)

-----------------------------------------------------------------------------
(* main, lines 44-56: load_config *)

CanStart(maxSessions) ==
    /\ pc \in {"idle", "done", "failed"}
    /\ session < maxSessions

Fresh ==
    /\ session' = session + 1
    /\ cli_tags' = <<>>
    /\ resolved_tags' = <<>>
    /\ config_updated' = FALSE
    /\ input' = <<>>
    /\ suggestions' = <<>>
    /\ store_writes' = 0
    /\ doc_writes' = 0
    /\ calls' = <<>>
    /\ doc_before' = doc
    /\ UNCHANGED <<store, doc, aliased, declined>>

LoadOk(maxSessions) ==
    /\ CanStart(maxSessions)
    /\ load_config(store).ok
    /\ config' = load_config(store).config
    /\ pc' = "loop"
    /\ err' = ""
    /\ Fresh

LoadFails(maxSessions) ==
    /\ CanStart(maxSessions)
    /\ ~load_config(store).ok
    /\ config' = DefaultConfig
    /\ pc' = "failed"
    /\ err' = "Failed to read DB file"
    /\ Fresh

-----------------------------------------------------------------------------
(* The log of the calls of resolve_tag *)

\* A prompt that waits for its answer (-1), and its items when it is the menu.
Asked(kind, items) == [kind |-> kind, items |-> items, answer |-> -1]

Answered(ps, answer) == [ps EXCEPT ![Len(ps)].answer = answer]

\* The call is entered with raw tag `tag`; `sugg` are its suggestions and `ps`
\* the prompts it comes to ask.
Called(tag, sugg, ps) ==
    Append(calls, [input |-> tag, before |-> config, sugg |-> sugg, prompts |-> ps,
                   returned |-> FALSE, name |-> <<>>, updated |-> FALSE, after |-> config])

\* The last call of the log with the prompts `ps`, still waiting.
Waiting(ps) == [calls EXCEPT ![Len(calls)].prompts = ps]

\* The last call `log` has returned (name, updated) and left the vocabulary `cfg`.
Returned(log, name, updated, cfg) ==
    [log EXCEPT ![Len(log)].returned = TRUE, ![Len(log)].name = name,
                ![Len(log)].updated = updated, ![Len(log)].after = cfg]

-----------------------------------------------------------------------------
(* resolve_tag and the body of the for loop of main, lines 58-64 *)

\* Variant: the call always returns false for `updated`.
ReturnNotUpdated(log, name, updated) ==
    /\ resolved_tags' = Append(resolved_tags, name)
    /\ config_updated' = config_updated
    /\ calls' = Returned(log, name, FALSE, config')
    /\ pc' = "loop"

\* Variant: main keeps the flag of the last call only.
ReturnLastOnly(log, name, updated) ==
    /\ resolved_tags' = Append(resolved_tags, name)
    /\ config_updated' = updated
    /\ calls' = Returned(log, name, updated, config')
    /\ pc' = "loop"

\* Lines 59-63: the call, the last of `log`, returns (name, updated) to main.
Return(log, name, updated) ==
    /\ resolved_tags' = Append(resolved_tags, name)
    /\ config_updated' = (config_updated \/ updated)
    /\ calls' = Returned(log, name, updated, config')
    /\ pc' = "loop"

\* The for loop takes the next raw tag and calls resolve_tag.
Enter(maxTags, tag) ==
    /\ pc = "loop"
    /\ Len(cli_tags) < maxTags
    /\ cli_tags' = Append(cli_tags, tag)
    /\ input' = tag

\* The items of the Select prompt, lines 105-116.
Menu(cfg, sugg, in) ==
    [k \in 1..Len(sugg) |-> [op |-> "use", name |-> cfg[sugg[k][1]].name]]
    \o << [op |-> "alias", name |-> cfg[BestMatchIdx(sugg)].name],
          [op |-> "new", name |-> in] >>

\* A. lines 86-93: the input is a name or an alias.
ResolveExact(maxTags, tag) ==
    /\ Enter(maxTags, tag)
    /\ ExactMatch(config, tag) # 0
    /\ config' = config
    /\ Return(Called(tag, <<>>, <<>>), config[ExactMatch(config, tag)].name, FALSE)
    /\ suggestions' = <<>>
    /\ UNCHANGED <<session, doc_before, store, doc, err, store_writes, doc_writes,
                   aliased, declined>>

\* B. lines 95-122: there are suggestions, the menu is shown.
ResolveSuggest(maxTags, tag) ==
    /\ Enter(maxTags, tag)
    /\ ExactMatch(config, tag) = 0
    /\ Suggestions(config, tag) # <<>>
    /\ suggestions' = Suggestions(config, tag)
    /\ calls' = Called(tag, Suggestions(config, tag),
                       << Asked("select", Menu(config, Suggestions(config, tag), tag)) >>)
    /\ pc' = "select"
    /\ UNCHANGED <<session, doc_before, store, doc, config, resolved_tags, config_updated,
                   err, store_writes, doc_writes, aliased, declined>>

\* Line 103 fails: no suggestion, the confirmation of C is asked.
ResolveUnknown(maxTags, tag) ==
    /\ Enter(maxTags, tag)
    /\ ExactMatch(config, tag) = 0
    /\ Suggestions(config, tag) = <<>>
    /\ suggestions' = <<>>
    /\ calls' = Called(tag, <<>>, << Asked("confirm", <<>>) >>)
    /\ pc' = "confirm"
    /\ UNCHANGED <<session, doc_before, store, doc, config, resolved_tags, config_updated,
                   err, store_writes, doc_writes, aliased, declined>>

\* The prompts of the waiting call, the last one answered.
Answer(answer) == Answered(calls[Len(calls)].prompts, answer)

\* Lines 124-126: one of the suggested entries is chosen.
SelectExisting(selection) ==
    /\ pc = "select"
    /\ selection < Len(suggestions)
    /\ config' = config
    /\ Return(Waiting(Answer(selection)), config[TargetIdx(suggestions, selection)].name, FALSE)
    /\ UNCHANGED <<session, doc_before, store, doc, cli_tags, input, suggestions,
                   err, store_writes, doc_writes, aliased, declined>>

\* Variant: the alias option asks the confirmation too.
SelectAliasConfirm ==
    /\ pc = "select"
    /\ calls' = Waiting(Append(Answer(Len(suggestions)), Asked("confirm", <<>>)))
    /\ pc' = "confirm"
    /\ UNCHANGED <<session, doc_before, store, doc, cli_tags, config, resolved_tags, config_updated,
                   input, suggestions, err, store_writes, doc_writes, aliased, declined>>

\* Lines 127-129: the input becomes an alias of the best match.
SelectAlias ==
    /\ pc = "select"
    /\ config' = PushAlias(config, BestMatchIdx(suggestions), input)
    /\ Return(Waiting(Answer(Len(suggestions))), config[BestMatchIdx(suggestions)].name, TRUE)
    /\ aliased' = aliased \cup
          {[x |-> input, m |-> config[BestMatchIdx(suggestions)].name, s |-> session]}
    /\ UNCHANGED <<session, doc_before, store, doc, cli_tags, input, suggestions,
                   err, store_writes, doc_writes, declined>>

\* The last item is chosen: control falls through to C.
SelectNew ==
    /\ pc = "select"
    /\ calls' = Waiting(Append(Answer(Len(suggestions) + 1), Asked("confirm", <<>>)))
    /\ pc' = "confirm"
    /\ UNCHANGED <<session, doc_before, store, doc, cli_tags, config, resolved_tags, config_updated,
                   input, suggestions, err, store_writes, doc_writes, aliased, declined>>

\* Lines 139-144: the registration is confirmed.
ConfirmYes ==
    /\ pc = "confirm"
    /\ config' = PushTag(config, input)
    /\ Return(Waiting(Answer(1)), input, TRUE)
    /\ UNCHANGED <<session, doc_before, store, doc, cli_tags, input, suggestions,
                   err, store_writes, doc_writes, aliased, declined>>

\* Lines 145-147: the registration is declined.
ConfirmNo ==
    /\ pc = "confirm"
    /\ config' = config
    /\ Return(Waiting(Answer(0)), input, FALSE)
    /\ declined' = declined \cup {[x |-> input, vocab |-> config, s |-> session]}
    /\ UNCHANGED <<session, doc_before, store, doc, cli_tags, input, suggestions,
                   err, store_writes, doc_writes, aliased>>

-----------------------------------------------------------------------------
(* main, lines 66-79 *)

\* cli.tags holds at least one tag (num_args = 1..) and the loop has taken them all.
LoopDone == pc = "loop" /\ Len(cli_tags) >= 1

\* Lines 67-70
Save ==
    /\ LoopDone
    /\ config_updated
    /\ store' = save_config(config)
    /\ store_writes' = store_writes + 1
    /\ pc' = "merge"
    /\ UNCHANGED <<session, doc_before, doc, cli_tags, config, resolved_tags, config_updated, input,
                   suggestions, err, doc_writes, calls, aliased, declined>>

SkipSave ==
    /\ LoopDone
    /\ ~config_updated
    /\ pc' = "merge"
    /\ UNCHANGED <<session, doc_before, store, doc, cli_tags, config, resolved_tags, config_updated,
                   input, suggestions, err, store_writes, doc_writes, calls, aliased,
                   declined>>

\* Line 73, update_markdown returns Ok
MergeOk ==
    /\ pc = "merge"
    /\ update_markdown(doc, resolved_tags).ok
    /\ doc' = update_markdown(doc, resolved_tags).file
    /\ doc_writes' = doc_writes + 1
    /\ pc' = "done"
    /\ UNCHANGED <<session, doc_before, store, cli_tags, config, resolved_tags, config_updated, input,
                   suggestions, err, store_writes, calls, aliased, declined>>

\* Line 73, update_markdown returns Err
MergeFails ==
    /\ pc = "merge"
    /\ ~update_markdown(doc, resolved_tags).ok
    /\ err' = update_markdown(doc, resolved_tags).err
    /\ pc' = "failed"
    /\ UNCHANGED <<session, doc_before, store, doc, cli_tags, config, resolved_tags, config_updated,
                   input, suggestions, store_writes, doc_writes, calls, aliased, declined>>

-----------------------------------------------------------------------------
(* One run of the program on any of the files *)

Next ==
    \/ LoadOk(1)
    \/ LoadFails(1)
    \/ \E tag \in Inputs : ResolveExact(MaxTags, tag)
    \/ \E tag \in Inputs : ResolveSuggest(MaxTags, tag)
    \/ \E tag \in Inputs : ResolveUnknown(MaxTags, tag)
    \/ \E selection \in 0..(Len(suggestions) - 1) : SelectExisting(selection)
    \/ SelectAlias
    \/ SelectNew
    \/ ConfirmYes
    \/ ConfirmNo
    \/ Save
    \/ SkipSave
    \/ MergeOk
    \/ MergeFails

Spec == Init /\ [][Next]_vars

(* Runs of the program one after the other on the same files *)

SessionStores ==
    { StoreFile("missing", <<>>),
      StoreFile("json", << JsonEntry(<<1, 2, 3, 4>>, FALSE, <<>>) >>) }

SessionDocs ==
    { DocFile("file", Body, FALSE),
      DocFile("file", << Marker, Item(VStr(<<2>>)), Marker >> \o Body, TRUE) }

InitSessions == InitWith(SessionStores, SessionDocs)

NextSessions ==
    \/ LoadOk(MaxSessions)
    \/ \E tag \in Inputs : ResolveExact(SessionTags, tag)
    \/ \E tag \in Inputs : ResolveSuggest(SessionTags, tag)
    \/ \E tag \in Inputs : ResolveUnknown(SessionTags, tag)
    \/ \E selection \in 0..(Len(suggestions) - 1) : SelectExisting(selection)
    \/ SelectAlias
    \/ SelectNew
    \/ ConfirmYes
    \/ ConfirmNo
    \/ Save
    \/ SkipSave
    \/ MergeOk
    \/ MergeFails

SpecSessions == InitSessions /\ [][NextSessions]_vars

(* The loop of the calls of resolve_tag, lines 50-64, on every store that loads *)

ResolveStores == {s \in InitStores : load_config(s).ok}

ResolveDocs == { DocFile("file", Body, FALSE) }

InitResolve == InitWith(ResolveStores, ResolveDocs)

\* The user answers the prompt that is open (Select::interact, Confirm::interact).
Answers ==
    \/ \E selection \in 0..(Len(suggestions) - 1) : SelectExisting(selection)
    \/ SelectAlias
    \/ SelectNew
    \/ ConfirmYes
    \/ ConfirmNo

NextResolve ==
    \/ LoadOk(1)
    \/ \E tag \in Inputs : ResolveExact(MaxCalls, tag)
    \/ \E tag \in Inputs : ResolveSuggest(MaxCalls, tag)
    \/ \E tag \in Inputs : ResolveUnknown(MaxCalls, tag)
    \/ Answers

\* A prompt blocks the process until it is answered; the answer comes.
SpecResolve == InitResolve /\ [][NextResolve]_vars /\ WF_vars(Answers)

-----------------------------------------------------------------------------
(* Vocabulary of the properties *)

\* x is the name or an alias of entry e.
HasString(e, x) == e.name = x \/ \E k \in 1..Len(e.aliases) : e.aliases[k] = x

\* x is a name or an alias in vocabulary v.
Known(v, x) == \E k \in 1..Len(v) : HasString(v[k], x)

\* The first entry of v that has x.
FirstKnown(v, x) ==
    CHOOSE k \in 1..Len(v) : HasString(v[k], x) /\ \A j \in 1..(k - 1) : ~HasString(v[j], x)

\* Call c returned without a prompt and without a change.
Quiet(c) ==
    /\ c.returned
    /\ c.prompts = <<>>
    /\ ~c.updated
    /\ c.after = c.before

\* v2 is v1 with one string appended to the aliases of one entry.
OneAliasMore(v1, v2) ==
    /\ Len(v2) = Len(v1)
    /\ \E k \in 1..Len(v1) :
          /\ v2[k].name = v1[k].name
          /\ Len(v2[k].aliases) = Len(v1[k].aliases) + 1
          /\ SubSeq(v2[k].aliases, 1, Len(v1[k].aliases)) = v1[k].aliases
          /\ \A j \in 1..Len(v1) : j # k => v2[j] = v1[j]

\* v2 is v1 with one entry appended.
OneEntryMore(v1, v2) ==
    /\ Len(v2) = Len(v1) + 1
    /\ SubSeq(v2, 1, Len(v1)) = v1

\* The run of main has returned.
RunEnded == pc \in {"done", "failed"}

\* The parsed block at the head of a file, null when there is none.
FrontMatter(file) ==
    IF file.kind # "file" \/ ClosingLine(file.lines, file.nl) = 0 THEN VNull
    ELSE LET parsed == YamlParse(SubLines(file.lines, 2, ClosingLine(file.lines, file.nl) - 1))
         IN  IF parsed.ok THEN parsed.val ELSE VNull

\* The value of `tags` in the block of a file, null when there is none.
TagsField(file) ==
    LET fm == FrontMatter(file)
    IN  IF fm.t = "map" /\ KeyIndex(fm.items, "tags") # 0
        THEN fm.items[KeyIndex(fm.items, "tags")].val
        ELSE VNull

\* The block of the file is a mapping with a `tags` key.
HasTagsField(file) ==
    FrontMatter(file).t = "map" /\ KeyIndex(FrontMatter(file).items, "tags") # 0

\* The strings of the `tags` list of a file.
TagsIn(file) ==
    LET v == TagsField(file)
    IN  IF v.t = "seq" THEN {v.items[k].s : k \in {j \in 1..Len(v.items) : v.items[j].t = "str"}}
        ELSE {}

-----------------------------------------------------------------------------
(* C1 *)

\* C1, as claimed: a call whose input is the name or an alias of an entry
\* returns the name of that entry, unchanged vocabulary, no prompt.
C1_AnyMatchingEntry ==
    \A n \in 1..Len(calls) : \A k \in 1..Len(calls[n].before) :
        HasString(calls[n].before[k], calls[n].input)
            => Quiet(calls[n]) /\ calls[n].name = calls[n].before[k].name

\* C1, amended: a call whose input is a name or an alias in the vocabulary
\* returns at once, without a prompt and without a change, the name of the
\* first entry in vocabulary order that has the input as name or alias.
C1_ExactMatch ==
    \A n \in 1..Len(calls) :
        Known(calls[n].before, calls[n].input)
            => /\ Quiet(calls[n])
               /\ calls[n].name =
                    calls[n].before[FirstKnown(calls[n].before, calls[n].input)].name

\* An alias was resolved to the name of its entry.
C1_Witness ==
    \E n \in 1..Len(calls) :
        /\ Known(calls[n].before, calls[n].input)
        /\ calls[n].returned
        /\ calls[n].name # calls[n].input

-----------------------------------------------------------------------------
(* C2 *)

\* C2: when a run ends, either the document was written with every resolved
\* tag in its tags, or neither the document nor the database was written.
C2_NoPartialSuccess ==
    RunEnded =>
        \/ /\ doc_writes = 1
           /\ \A k \in 1..Len(resolved_tags) : resolved_tags[k] \in TagsIn(doc)
        \/ /\ doc_writes = 0
           /\ store_writes = 0

-----------------------------------------------------------------------------
(* C3 *)

\* The `tags` field of the block is there and is neither a string nor a list.
OddTags(file) == HasTagsField(file) /\ TagsField(file).t \notin {"str", "seq"}

\* C3: the merge of a document whose `tags` is neither a string nor a list
\* fails and leaves the document as it is.
C3_StructuralError ==
    [][pc = "merge" /\ OddTags(doc) => pc' = "failed" /\ doc' = doc /\ doc_writes' = doc_writes]_vars

-----------------------------------------------------------------------------
(* C4 *)

\* C4: a call returns true exactly when it changed the vocabulary, the
\* change is one alias appended or one entry appended, and the vocabulary
\* does not change while the call waits at a prompt.
C4_ChangedFlag ==
    /\ \A n \in 1..Len(calls) :
          LET c == calls[n]
          IN  /\ c.updated = (c.after # c.before)
              /\ c.after # c.before
                    => OneAliasMore(c.before, c.after) \/ OneEntryMore(c.before, c.after)
    /\ calls # <<>> /\ pc \in {"loop", "select", "confirm"}
          => config = calls[Len(calls)].after

\* A call returned true after an alias was appended, another after an entry was.
C4_Witness ==
    \E n, m \in 1..Len(calls) :
        /\ calls[n].updated /\ OneAliasMore(calls[n].before, calls[n].after)
        /\ calls[m].updated /\ OneEntryMore(calls[m].before, calls[m].after)

-----------------------------------------------------------------------------
(* Vocabulary of the properties about the fuzzy check *)

\* The entries of v whose name is within edit distance 3 of x.
Near(v, x) == {k \in 1..Len(v) : levenshtein(v[k].name, x) <= 3}

\* The j-th element of a set of numbers, in increasing order.
Nth(S, j) == CHOOSE k \in S : Cardinality({m \in S : m < k}) = j - 1

\* Call c showed the menu.
Chose(c) == c.prompts # <<>> /\ c.prompts[1].kind = "select"

\* Call c asked the confirmation.
Confirmed(c) == c.prompts # <<>> /\ c.prompts[Len(c.prompts)].kind = "confirm"

\* Call c returned after the confirmation was declined.
Declined(c) == c.returned /\ Confirmed(c) /\ c.prompts[Len(c.prompts)].answer = 0

-----------------------------------------------------------------------------
(* C5 *)

\* C5: once the alias option was taken for x against m, the database holds x
\* among the aliases of m from the save of that run on, and every call with
\* input x in a later run returns m with no prompt and no change.
C5_AliasPersists ==
    /\ \A r \in aliased :
          (r.s < session \/ pc \in {"merge", "done", "failed"})
              => /\ store.kind = "json"
                 /\ \E k \in 1..Len(store.tags) :
                       /\ store.tags[k].name = r.m
                       /\ store.tags[k].has_aliases
                       /\ \E j \in 1..Len(store.tags[k].aliases) : store.tags[k].aliases[j] = r.x
    /\ \A r \in aliased : \A n \in 1..Len(calls) :
          (r.s < session /\ calls[n].input = r.x)
              => Quiet(calls[n]) /\ calls[n].name = r.m

\* A later run resolved an input that an earlier run had made an alias.
C5_Witness ==
    \E r \in aliased : \E n \in 1..Len(calls) :
        r.s < session /\ calls[n].input = r.x /\ calls[n].returned

-----------------------------------------------------------------------------
(* C6 *)

\* C6: a declined input is returned as it is and leaves the vocabulary as it
\* was, the document written by the run has it among its tags, and a later
\* run that resolves it against the same vocabulary prompts again.
C6_DeclinedStillTagged ==
    /\ \A n \in 1..Len(calls) :
          Declined(calls[n])
              => /\ calls[n].name = calls[n].input
                 /\ ~calls[n].updated
                 /\ calls[n].after = calls[n].before
                 /\ resolved_tags[n] = calls[n].input
                 /\ pc = "done" => calls[n].input \in TagsIn(doc)
    /\ \A r \in declined : \A n \in 1..Len(calls) :
          (r.s < session /\ calls[n].input = r.x /\ calls[n].before = r.vocab)
              => calls[n].prompts # <<>>

\* The part of C6 that is about the vocabulary alone: the declined input is
\* returned, nothing changes, the database is not written for it, and a later
\* run that resolves it against the same vocabulary prompts again.
C6_DeclinedNotLearned ==
    /\ \A n \in 1..Len(calls) :
          Declined(calls[n])
              => /\ calls[n].name = calls[n].input
                 /\ ~calls[n].updated
                 /\ calls[n].after = calls[n].before
                 /\ resolved_tags[n] = calls[n].input
    /\ \A r \in declined : \A n \in 1..Len(calls) :
          (r.s < session /\ calls[n].input = r.x /\ calls[n].before = r.vocab)
              => calls[n].prompts # <<>>

C6_DeclinedAgain ==
    \E r \in declined : \E n \in 1..Len(calls) :
        r.s < session /\ calls[n].input = r.x /\ calls[n].before = r.vocab

-----------------------------------------------------------------------------
(* C7 *)

\* C7: when the input is not known, the suggestions are exactly the entries
\* whose name is within distance 3 of the input, whatever their aliases; the
\* menu is shown when there is one, the confirmation is asked at once when
\* there is none.
C7_FuzzyThreshold ==
    \A n \in 1..Len(calls) :
        LET c == calls[n]
            near == Near(c.before, c.input)
        IN  ~Known(c.before, c.input)
                => /\ {c.sugg[j][1] : j \in 1..Len(c.sugg)} = near
                   /\ Len(c.sugg) = Cardinality(near)
                   /\ c.prompts # <<>>
                   /\ c.prompts[1].kind = (IF near = {} THEN "confirm" ELSE "select")

\* One entry at distance 3 is suggested, another at distance 4 is not although
\* one of its aliases is within distance 3.
C7_Witness ==
    \E n \in 1..Len(calls) :
        LET c == calls[n]
            suggested == {c.sugg[j][1] : j \in 1..Len(c.sugg)}
        IN  /\ ~Known(c.before, c.input)
            /\ \E k \in suggested : levenshtein(c.before[k].name, c.input) = 3
            /\ \E k \in 1..Len(c.before) :
                  /\ k \notin suggested
                  /\ levenshtein(c.before[k].name, c.input) = 4
                  /\ \E a \in 1..Len(c.before[k].aliases) :
                        levenshtein(c.before[k].aliases[a], c.input) <= 3

-----------------------------------------------------------------------------
(* C8 *)

\* Call c returned after the alias option of the menu was taken.
TookAlias(c) ==
    c.returned /\ Chose(c) /\ c.prompts[1].answer = Cardinality(Near(c.before, c.input))

\* The least element of a non-empty set of numbers.
Least(S) == CHOOSE k \in S : \A m \in S : k <= m

\* C8: the alias option appends the input to the aliases of the suggested
\* entry of lowest index, returns the name of that entry and true, and
\* changes nothing else.
C8_AliasLowestIndex ==
    \A n \in 1..Len(calls) :
        LET c == calls[n]
            best == Least(Near(c.before, c.input))
        IN  TookAlias(c)
                => /\ Len(c.prompts) = 1
                   /\ c.name = c.before[best].name
                   /\ c.updated
                   /\ c.after = [c.before EXCEPT ![best].aliases = Append(@, c.input)]

\* The alias went to the entry of lowest index while another suggested entry
\* was nearer, and the entry already had an alias.
C8_Witness ==
    \E n \in 1..Len(calls) :
        LET c == calls[n]
            near == Near(c.before, c.input)
        IN  /\ TookAlias(c)
            /\ c.before[Least(near)].aliases # <<>>
            /\ \E k \in near :
                  levenshtein(c.before[k].name, c.input)
                      < levenshtein(c.before[Least(near)].name, c.input)

-----------------------------------------------------------------------------
(* C9 *)

\* C9: the menu holds one "use" item for each suggested entry, in vocabulary
\* order, and two more items; taking the i-th returns the name of the i-th
\* suggested entry and false and changes nothing, and the same input resolved
\* next is shown the same menu.
C9_UseExisting ==
    \A n \in 1..Len(calls) :
        LET c == calls[n]
            near == Near(c.before, c.input)
            N == Cardinality(near)
        IN  Chose(c)
                => /\ N >= 1
                   /\ Len(c.prompts[1].items) = N + 2
                   /\ \A j \in 1..N :
                         c.prompts[1].items[j] = [op |-> "use", name |-> c.before[Nth(near, j)].name]
                   /\ (c.returned /\ c.prompts[1].answer < N)
                         => /\ Len(c.prompts) = 1
                            /\ c.name = c.before[Nth(near, c.prompts[1].answer + 1)].name
                            /\ ~c.updated
                            /\ c.after = c.before
                            /\ (n < Len(calls) /\ calls[n + 1].input = c.input)
                                  => /\ Chose(calls[n + 1])
                                     /\ calls[n + 1].prompts[1].items = c.prompts[1].items

\* The second of two suggested entries was used, and the same input came next.
C9_Witness ==
    \E n \in 1..Len(calls) :
        /\ Chose(calls[n])
        /\ calls[n].returned
        /\ calls[n].prompts[1].answer = 1
        /\ Cardinality(Near(calls[n].before, calls[n].input)) >= 2
        /\ n < Len(calls)
        /\ calls[n + 1].input = calls[n].input

-----------------------------------------------------------------------------
(* C10 *)

\* C10: for an input that is not known, the confirmation is asked exactly
\* when nothing is suggested or the last item of the menu is taken; answered
\* yes, the entry {input, no alias} is appended at the end and (input, true)
\* is returned; answered no, (input, false) is returned and nothing changes.
C10_RegisterNew ==
    \A n \in 1..Len(calls) :
        LET c == calls[n]
            near == Near(c.before, c.input)
            answer == c.prompts[Len(c.prompts)].answer
        IN  ~Known(c.before, c.input)
                => /\ Confirmed(c)
                        <=> (near = {} \/ (Chose(c) /\ c.prompts[1].answer = Cardinality(near) + 1))
                   /\ (c.returned /\ Confirmed(c))
                        => /\ answer \in {0, 1}
                           /\ c.name = c.input
                           /\ c.updated = (answer = 1)
                           /\ c.after = (IF answer = 1
                                         THEN Append(c.before, [name |-> c.input, aliases |-> <<>>])
                                         ELSE c.before)

\* The empty string was registered after the last item of the menu was taken,
\* in a vocabulary that had entries.
C10_Witness ==
    \E n \in 1..Len(calls) :
        /\ calls[n].input = <<>>
        /\ Chose(calls[n])
        /\ Confirmed(calls[n])
        /\ calls[n].returned
        /\ calls[n].updated
        /\ Len(calls[n].after) = Len(calls[n].before) + 1

-----------------------------------------------------------------------------
(* Vocabulary of the properties about the merge *)

\* The run has written the document.
Merged == pc = "done" /\ doc_writes = 1

\* a comes before b in lexical order of code points.
Before(a, b) ==
    \E k \in 1..(Len(b)) :
        /\ k <= Len(a) + 1
        /\ \A j \in 1..(k - 1) : a[j] = b[j]
        /\ (k = Len(a) + 1 \/ a[k] < b[k])

\* The strings the `tags` field of a file holds: the scalar, or the strings of the list.
Existing(file) ==
    IF TagsField(file).t = "str" THEN {TagsField(file).s} ELSE TagsIn(file)

\* The set of the elements of a sequence.
Range(q) == {q[k] : k \in 1..Len(q)}

-----------------------------------------------------------------------------
(* C11 *)

-----------------------------------------------------------------------------
(* C12 *)

\* The line that closes the block of a file as the document format has it:
\* the first line after the opening marker and the block content that holds
\* only the marker, whether or not a line break follows it; 0 when there is none.
MarkerClose(file) ==
    IF Len(file.lines) >= 3 /\ file.lines[1] = Marker
          /\ \E c \in 3..Len(file.lines) : file.lines[c] = Marker
    THEN CHOOSE c \in 3..Len(file.lines) :
            file.lines[c] = Marker /\ \A j \in 3..(c - 1) : file.lines[j] # Marker
    ELSE 0

\* The text of a file from line `from` on; an empty text has no last line break to tell.
TextFrom(file, from) ==
    [lines |-> SubLines(file.lines, from, Len(file.lines)),
     nl |-> IF from > Len(file.lines) THEN TRUE ELSE file.nl]

\* C12, as claimed: the written document is marker, block, marker and body,
\* and its body is the text that followed the closing marker line of the
\* input, or the whole input when the input had no block.
C12_BodyPreserved ==
    Merged =>
        /\ MarkerClose(doc) # 0
        /\ TextFrom(doc, MarkerClose(doc) + 1) =
              TextFrom(doc_before, MarkerClose(doc_before) + 1)

\* The same, for the documents whose closing marker line ends with a line break.
C12_BodyPreservedWhenTerminated ==
    (Merged /\ (MarkerClose(doc_before) = Len(doc_before.lines) => doc_before.nl))
        => C12_BodyPreserved

-----------------------------------------------------------------------------
(* C13 *)

\* The run went through the loop and called update_markdown.
MergeTried == RunEnded /\ Len(calls) >= 1

\* update_markdown found a block at the head of the file.
BlockFound(file) == file.kind = "file" /\ ClosingLine(file.lines, file.nl) # 0

\* What the YAML parser makes of the block found at the head of the file.
BlockParse(file) ==
    YamlParse(SubLines(file.lines, 2, ClosingLine(file.lines, file.nl) - 1))

C13_WitnessList ==
    /\ MergeTried
    /\ BlockFound(doc_before)
    /\ BlockParse(doc_before).ok
    /\ BlockParse(doc_before).val.t = "seq"
    /\ pc = "failed"

-----------------------------------------------------------------------------
(* C14 *)

\* The loop of the run is over.
PastLoop == pc \in {"merge", "done", "failed"} /\ Len(calls) >= 1

\* C14: a run writes the store at most once, and only when the loop is over
\* and every call has returned; once the loop is over the store has been
\* written exactly when some call returned a change, and what it holds is
\* the vocabulary the last call left.
C14_SaveDiscipline ==
    /\ store_writes <= 1
    /\ store_writes = 0 => store \in InitStores
    /\ store_writes = 1 =>
          /\ PastLoop
          /\ Len(calls) = Len(cli_tags)
          /\ \A n \in 1..Len(calls) : calls[n].returned
          /\ store.kind = "json"
          /\ load_config(store).config = calls[Len(calls)].after
    /\ PastLoop => (store_writes = 1 <=> \E n \in 1..Len(calls) : calls[n].updated)

\* The store was written in a run whose first call changed the vocabulary
\* and whose last call did not.
C14_Witness ==
    /\ pc = "done"
    /\ store_writes = 1
    /\ Len(calls) = 2
    /\ calls[1].updated
    /\ ~calls[2].updated

-----------------------------------------------------------------------------
(* C15 *)

\* The run has loaded the vocabulary and has not called resolve_tag yet.
Loaded == pc = "loop" /\ calls = <<>>

\* The run ended in load_config.
LoadFailed == pc = "failed" /\ calls = <<>> /\ err = "Failed to read DB file"

\* C15, as claimed: a store that is missing, or present with content that is
\* not a valid vocabulary, loads to the empty vocabulary and never fails the
\* run; a vocabulary that is not empty comes from a well-formed store.
C15_LoadLenient ==
    /\ store.kind \in {"missing", "corrupt", "not_utf8"} =>
          /\ ~LoadFailed
          /\ Loaded => config = <<>>
    /\ (Loaded /\ config # <<>>) => store.kind = "json"

\* The same, for the stores whose content is text.
C15_LoadLenientText ==
    /\ store.kind \in {"missing", "corrupt"} =>
          /\ ~LoadFailed
          /\ Loaded => config = <<>>
    /\ (Loaded /\ config # <<>>) => store.kind = "json"

-----------------------------------------------------------------------------
(* C16 *)

\* No two entries of v have the same name.
DistinctNames(v) == \A j, k \in 1..Len(v) : v[j].name = v[k].name => j = k

\* C16: when the names of the loaded vocabulary are pairwise distinct, the
\* names stay pairwise distinct through every call of resolve_tag, in the
\* vocabulary of the run and in what every call left.
C16_UniqueNames ==
    (Len(calls) >= 1 /\ DistinctNames(calls[1].before)) =>
        /\ DistinctNames(config)
        /\ \A n \in 1..Len(calls) : DistinctNames(calls[n].after)

\* Two calls registered two new tags in a vocabulary that had entries.
C16_Witness ==
    /\ Len(calls) = 2
    /\ calls[2].returned
    /\ Len(calls[1].before) >= 1
    /\ OneEntryMore(calls[1].before, calls[1].after)
    /\ OneEntryMore(calls[2].before, calls[2].after)
    /\ config = calls[2].after

-----------------------------------------------------------------------------
(* C17 *)

\* The pairs of a mapping whose key is not `tags`.
Others(pairs) == {pairs[k] : k \in {j \in 1..Len(pairs) : pairs[j].key # "tags"}}

-----------------------------------------------------------------------------
(* C18 *)

\* The kinds of the prompts call c has asked, in the order it asked them.
Kinds(c) == [k \in 1..Len(c.prompts) |-> c.prompts[k].kind]

\* The stage call c is in: 2 while the menu is open (FUZZY_CHECK), 3 while
\* the confirmation is open (REGISTER_NEW), 4 when it has returned (DONE).
\* The exact check (1) is over within the step that enters the call.
Stage(c) ==
    IF c.returned THEN 4
    ELSE IF Confirmed(c) THEN 3
    ELSE IF Chose(c) THEN 2
    ELSE 1

\* What call c has asked agrees with the order of the stages.
PromptsInOrder(c) ==
    /\ Kinds(c) \in { <<>>, <<"select">>, <<"confirm">>, <<"select", "confirm">> }
    /\ Chose(c) => ~Known(c.before, c.input) /\ Near(c.before, c.input) # {}
    /\ Kinds(c) = <<"confirm">> => ~Known(c.before, c.input) /\ Near(c.before, c.input) = {}
    /\ Kinds(c) = <<"select", "confirm">> =>
          c.prompts[1].answer = Cardinality(Near(c.before, c.input)) + 1
    /\ c.returned => \A k \in 1..Len(c.prompts) : c.prompts[k].answer # -1
    /\ ~c.returned => c.prompts # <<>> /\ c.prompts[Len(c.prompts)].answer = -1

\* A step that leaves the log as long as it was moves the open call to a later stage.
ForwardStep ==
    (Len(calls') = Len(calls) /\ calls' # calls) =>
        /\ Len(calls) >= 1
        /\ \A n \in 1..(Len(calls) - 1) : calls'[n] = calls[n]
        /\ Stage(calls'[Len(calls)]) > Stage(calls[Len(calls)])

\* A step that makes the log longer enters one call, after the call before it returned.
EnterStep ==
    Len(calls') # Len(calls) =>
        \/ calls' = <<>>
        \/ /\ Len(calls') = Len(calls) + 1
           /\ SubSeq(calls', 1, Len(calls)) = calls
           /\ \A n \in 1..Len(calls) : calls[n].returned

\* C18: every call goes through the stages forward only, asks the menu at
\* most once and the confirmation at most once, the menu first, the
\* confirmation only when there was no candidate or the last item of the
\* menu was chosen, and returns once its prompts are answered.
C18_StagesForward ==
    /\ [](\A n \in 1..Len(calls) : PromptsInOrder(calls[n]))
    /\ [][ForwardStep /\ EnterStep]_vars
    /\ \A n \in 1..MaxCalls :
          (Len(calls) = n /\ ~calls[n].returned) ~> (Len(calls) >= n /\ calls[n].returned)

\* A call that showed the menu, then asked the confirmation, has returned,
\* after a call that asked the confirmation only and one that asked nothing.
C18_Witness ==
    /\ Len(calls) = 3
    /\ calls[3].returned
    /\ \E n \in 1..3 : Kinds(calls[n]) = <<"select", "confirm">>
    /\ \E n \in 1..3 : Kinds(calls[n]) = <<"confirm">>
    /\ \E n \in 1..3 : Kinds(calls[n]) = <<>>

-----------------------------------------------------------------------------
(* C19 *)

\* Sequence p is the beginning of sequence q.
Prefix(p, q) == Len(p) <= Len(q) /\ SubSeq(q, 1, Len(p)) = p

\* Vocabulary v2 keeps every entry of v1 where it was, under its name, with
\* the aliases it had as the first of its aliases.
Keeps(v1, v2) ==
    /\ Len(v1) <= Len(v2)
    /\ \A k \in 1..Len(v1) :
          /\ v2[k].name = v1[k].name
          /\ Prefix(v1[k].aliases, v2[k].aliases)

\* C19: every call leaves each entry it found at its index, with its name
\* and with its aliases as a prefix of the aliases it has afterwards; a call
\* starts from what the call before it left, and so does the vocabulary of
\* the run at every moment.
C19_AccumulationOnly ==
    /\ \A n \in 1..Len(calls) : Keeps(calls[n].before, calls[n].after)
    /\ \A n \in 1..(Len(calls) - 1) : calls[n + 1].before = calls[n].after
    /\ Len(calls) >= 1 =>
          /\ Keeps(calls[1].before, config)
          /\ config = calls[Len(calls)].after

\* An entry that had an alias got one more, in a run that also got a new entry.
C19_Witness ==
    /\ Len(calls) = 3
    /\ calls[3].returned
    /\ \E n \in 1..3 :
          /\ TookAlias(calls[n])
          /\ \E k \in 1..Len(calls[n].before) :
                /\ Len(calls[n].before[k].aliases) >= 1
                /\ Len(calls[n].after[k].aliases) = Len(calls[n].before[k].aliases) + 1
    /\ \E n \in 1..3 : OneEntryMore(calls[n].before, calls[n].after)

-----------------------------------------------------------------------------
(* C20 *)

\* C20: once a call with input x has returned a change, every later call of
\* the run with input x returns at once the name that call returned, with no
\* prompt and no change, whatever was resolved in between.
C20_LearnedInSession ==
    \A n, m \in 1..Len(calls) :
        (n < m /\ calls[n].returned /\ calls[n].updated /\ calls[m].input = calls[n].input)
            => /\ Quiet(calls[m])
               /\ calls[m].name = calls[n].name

\* An input became an alias, another input was resolved, and the first
\* input came again.
C20_Witness ==
    /\ Len(calls) = 3
    /\ TookAlias(calls[1])
    /\ calls[1].name # calls[1].input
    /\ calls[2].input # calls[1].input
    /\ calls[2].updated
    /\ calls[3].input = calls[1].input
    /\ calls[3].returned

====
